---- MODULE Spec2Model ----
(***************************************************************************)
(* Model of src/main.py: one poll of a Redis Enterprise cluster.           *)
(*                                                                         *)
(*   main()              fetch license, fetch bdbs, fetch metrics, parse   *)
(*                       three metric families, join on the keys of        *)
(*                       used_memory, write one JSON document.             *)
(*   parse_metrics()     regular expression scan + dict comprehension.     *)
(*   fetch_license_data  license fields, shard percentage, logging.        *)
(*                                                                         *)
(* Representation.                                                         *)
(*   - A Python str that the program takes apart (a metric value, a bdb    *)
(*     label value, a dict key) is a sequence of one-character strings.    *)
(*   - A metrics text is a sequence of lines; a line is a record           *)
(*     [name, labels, value]: the family name as a sequence of words       *)
(*     (joined by "_"), the brace list as a sequence of labels (joined by  *)
(*     ","), and the characters that follow "} ".                          *)
(*   - A Python float is an exact rational [tag |-> "num", num, den] in    *)
(*     lowest terms with den > 0 (binary rounding error is abstracted).    *)
(*   - A Python dict is a sequence of [key, val] entries with distinct     *)
(*     keys, in insertion order.                                           *)
(*   - A raised exception is a record [tag |-> "exc", type].               *)
(*   - Info-level logging is not recorded; only the evaluation of its      *)
(*     format strings (which can raise) is modelled.                       *)
(***************************************************************************)
EXTENDS Integers, Sequences, FiniteSets, TLC

VARIABLES
    pc,                \* position of main()
    http,              \* requests issued so far: <<[url, ok]>>
    license_data,      \* fetch_license_data: the JSON object fetched
    license_info,      \* main: result of fetch_license_data()
    bdbs_mapping,      \* main: result of fetch_bdbs_data()
    metrics_response,  \* main: result of fetch_metrics_data()
    used_memory,       \* main: parse_metrics(..., 'bdb_used_memory')
    memory_limit,      \* main: parse_metrics(..., 'bdb_memory_limit')
    total_keys_data,   \* main: parse_metrics(..., 'redis_db_keys')
    database_list,     \* main: entries appended so far
    idx,               \* main: number of used_memory items already iterated
    percent_memory_used, \* main: local of the latest loop iteration
    stdout,            \* documents written by print()
    error_log,         \* exceptions logged by logging.error(..., exc_info=True)
    data,              \* parse_metrics: argument
    metric_name,       \* parse_metrics: argument
    matches,           \* parse_metrics: pattern.findall(data)
    table              \* parse_metrics: returned dict, or the exception raised

vars == <<pc, http, license_data, license_info, bdbs_mapping, metrics_response, used_memory,
          memory_limit, total_keys_data, database_list, idx,
          percent_memory_used, stdout, error_log, data, metric_name, matches,
          table>>

----------------------------------------------------------------------------
(* Bounds *)

\* longest metrics text (in lines) given to parse_metrics on its own
MaxLines == 3

\* longest metrics text (in lines) returned by the metrics endpoint in a poll
MaxPollLines == 3

----------------------------------------------------------------------------
(* Python values *)

None == [tag |-> "None"]

NA == [tag |-> "str", s |-> "N/A"]

Exc(type) == [tag |-> "exc", type |-> type]

IsExc(v) == v.tag = "exc"

Abs(n) == IF n < 0 THEN -n ELSE n

RECURSIVE Gcd(_, _)
Gcd(a, b) == IF b = 0 THEN a ELSE Gcd(b, a % b)

\* the rational n/d in lowest terms, d # 0
Rat(n, d) ==
    LET g == Gcd(Abs(n), Abs(d))
        s == IF d < 0 THEN -1 ELSE 1
    IN  [tag |-> "num", num |-> s * (n \div g), den |-> s * (d \div g)]

Num(n) == Rat(n, 1)

RatAdd(a, b) == Rat(a.num * b.den + b.num * a.den, a.den * b.den)

RatMul(a, b) ==
    LET g1 == Gcd(Abs(a.num), b.den)
        g2 == Gcd(Abs(b.num), a.den)
    IN  Rat((a.num \div g1) * (b.num \div g2), (a.den \div g2) * (b.den \div g1))

\* Python's a / b: ZeroDivisionError when b == 0
TrueDiv(a, b) ==
    IF b.num = 0 THEN Exc("ZeroDivisionError")
    ELSE RatMul(a, Rat(b.den, b.num))

RatGt0(a) == a.num > 0

\* int(x) of a float: truncation toward zero
Trunc(a) == IF a.num >= 0 THEN a.num \div a.den ELSE -((-a.num) \div a.den)

\* round(x, 2): nearest multiple of 1/100, ties to even
Round2(a) ==
    LET n == a.num * 100
        q == n \div a.den
        r == n % a.den
        up == \/ 2 * r > a.den
              \/ (2 * r = a.den /\ q % 2 = 1)
    IN  Rat(IF up THEN q + 1 ELSE q, 100)

----------------------------------------------------------------------------
(* Python dict: insertion-ordered, distinct keys *)

DictKeys(d) == {d[i].key : i \in 1..Len(d)}

DictHas(d, k) == \E i \in 1..Len(d) : d[i].key = k

\* d.get(k, default)
DictGet(d, k, default) ==
    IF DictHas(d, k)
    THEN d[CHOOSE i \in 1..Len(d) : d[i].key = k].val
    ELSE default

\* a dict that keeps the first value stored under a key
DictSetKeepFirst(d, k, v) ==
    IF DictHas(d, k) THEN d ELSE Append(d, [key |-> k, val |-> v])

\* d[k] = v : overwrite in place, or append
DictSet(d, k, v) ==
    IF DictHas(d, k)
    THEN [i \in 1..Len(d) |-> IF d[i].key = k THEN [key |-> k, val |-> v] ELSE d[i]]
    ELSE Append(d, [key |-> k, val |-> v])

----------------------------------------------------------------------------
(* Characters and numeric literals *)

DigitChars == <<"0", "1", "2", "3", "4", "5", "6", "7", "8", "9">>

Digits == {DigitChars[i] : i \in 1..10}

DigitVal(c) == (CHOOSE i \in 1..10 : DigitChars[i] = c) - 1

AllDigits(s) == \A i \in 1..Len(s) : s[i] \in Digits

RECURSIVE DigitsVal(_)
DigitsVal(s) ==
    IF s = <<>> THEN 0
    ELSE 10 * DigitsVal(SubSeq(s, 1, Len(s) - 1)) + DigitVal(s[Len(s)])

RECURSIVE Pow10(_)
Pow10(n) == IF n = 0 THEN 1 ELSE 10 * Pow10(n - 1)

\* first position of character c in s, 0 when absent
IndexOf(s, c) ==
    IF \E i \in 1..Len(s) : s[i] = c
    THEN CHOOSE i \in 1..Len(s) : s[i] = c /\ \A j \in 1..(i - 1) : s[j] # c
    ELSE 0

\* str(n) for n >= 0
RECURSIVE IntToStr(_)
IntToStr(n) ==
    IF n < 10 THEN <<DigitChars[n + 1]>>
    ELSE Append(IntToStr(n \div 10), DigitChars[(n % 10) + 1])

\* float(s) for s made of the characters the pattern's value class admits:
\* [sign] (digits [. [digits]] | . digits) [e [sign] digits]; anything else
\* raises ValueError
Float(s) ==
    LET signed == s # <<>> /\ s[1] \in {"+", "-"}
        neg    == signed /\ s[1] = "-"
        body   == IF signed THEN Tail(s) ELSE s
        ePos   == IndexOf(body, "e")
        mant   == IF ePos = 0 THEN body ELSE SubSeq(body, 1, ePos - 1)
        expo   == IF ePos = 0 THEN <<>> ELSE SubSeq(body, ePos + 1, Len(body))
        eSigned == expo # <<>> /\ expo[1] \in {"+", "-"}
        eNeg   == eSigned /\ expo[1] = "-"
        eDigs  == IF eSigned THEN Tail(expo) ELSE expo
        dot    == IndexOf(mant, ".")
        ipart  == IF dot = 0 THEN mant ELSE SubSeq(mant, 1, dot - 1)
        fpart  == IF dot = 0 THEN <<>> ELSE SubSeq(mant, dot + 1, Len(mant))
        ok     == /\ AllDigits(ipart) /\ AllDigits(fpart)
                  /\ Len(ipart) + Len(fpart) >= 1
                  /\ ePos # 0 => (AllDigits(eDigs) /\ Len(eDigs) >= 1)
        m      == DigitsVal(ipart) * Pow10(Len(fpart)) + DigitsVal(fpart)
        e      == DigitsVal(eDigs)
        num    == (IF neg THEN -m ELSE m) * (IF eNeg THEN 1 ELSE Pow10(e))
        den    == Pow10(Len(fpart)) * (IF eNeg THEN Pow10(e) ELSE 1)
    IN  IF ok THEN Rat(num, den) ELSE Exc("ValueError")

----------------------------------------------------------------------------
(* parse_metrics *)

Lab(k, v) == [key |-> k, val |-> v]

Line(n, l, v) == [name |-> n, labels |-> l, value |-> v]

\* characters of the pattern's value class [\d.e+-]
ValueClass == Digits \cup {".", "e", "+", "-"}

IsSuffix(p, s) ==
    /\ Len(p) <= Len(s)
    /\ SubSeq(s, Len(s) - Len(p) + 1, Len(s)) = p

\* `bdb="(\d+)",` : a bdb label with a digit value that a comma follows, i.e.
\* one that is not the last of the brace list
BdbFollowedByComma(labels, i) ==
    /\ labels[i].key = "bdb"
    /\ labels[i].val # <<>>
    /\ AllDigits(labels[i].val)
    /\ i < Len(labels)

\* index of the label the lazy `.*?bdb="(\d+)",` stops at, 0 when none
BdbIndex(labels) ==
    IF \E i \in 1..Len(labels) : BdbFollowedByComma(labels, i)
    THEN CHOOSE i \in 1..Len(labels) :
            /\ BdbFollowedByComma(labels, i)
            /\ \A j \in 1..(i - 1) : ~BdbFollowedByComma(labels, j)
    ELSE 0

\* `([\d.e+-]+)` is greedy: the longest prefix of class characters
RECURSIVE ValuePrefix(_)
ValuePrefix(v) ==
    IF v # <<>> /\ v[1] \in ValueClass
    THEN <<v[1]>> \o ValuePrefix(Tail(v))
    ELSE <<>>

\* the unanchored pattern finds `name` wherever it stands right before "{"
NameMatches(name, line) == IsSuffix(name, line.name)

LineMatches(name, line) ==
    /\ NameMatches(name, line)
    /\ BdbIndex(line.labels) # 0
    /\ ValuePrefix(line.value) # <<>>

\* the two groups captured on a matching line
Groups(line) ==
    [db |-> line.labels[BdbIndex(line.labels)].val,
     value |-> ValuePrefix(line.value)]

\* pattern.findall(data): the groups of every match, in text order
RECURSIVE FindAll(_, _)
FindAll(text, name) ==
    IF text = <<>> THEN <<>>
    ELSE (IF LineMatches(name, Head(text)) THEN <<Groups(Head(text))>> ELSE <<>>)
         \o FindAll(Tail(text), name)

\* {db: float(value) for db, value in matches}; an exception raised by float()
\* leaves the comprehension
RECURSIVE DictComp(_, _)
DictComp(ms, acc) ==
    IF ms = <<>> THEN [tag |-> "dict", items |-> acc]
    ELSE LET f == Float(Head(ms).value)
         IN  IF IsExc(f) THEN f
             ELSE DictComp(Tail(ms), DictSet(acc, Head(ms).db, f))

ParseMetrics(text, name) == DictComp(FindAll(text, name), <<>>)

----------------------------------------------------------------------------
(* Metric families and the texts given to parse_metrics *)

\* 'bdb_used_memory', 'bdb_memory_limit', 'redis_db_keys'
UsedMemoryName == <<"bdb", "used", "memory">>

MemoryLimitName == <<"bdb", "memory", "limit">>

TotalKeysName == <<"redis", "db", "keys">>

\* the names parse_metrics is given on its own
ParseNames == {UsedMemoryName, MemoryLimitName}

\* brace lists with the bdb label first, in the middle, last, alone, absent
BdbFirst(id) == <<Lab("bdb", id), Lab("node", <<"1">>)>>

BdbMiddle(id) == <<Lab("cluster", <<"c">>), Lab("bdb", id), Lab("node", <<"1">>)>>

BdbLast(id) == <<Lab("node", <<"1">>), Lab("bdb", id)>>

BdbOnly(id) == <<Lab("bdb", id)>>

NoBdb == <<Lab("node", <<"1">>)>>

\* lines of the family bdb_used_memory for database 1, every label position
PositionLines ==
    {Line(UsedMemoryName, l, v) :
        l \in {BdbFirst(<<"1">>), BdbMiddle(<<"1">>), BdbLast(<<"1">>),
               BdbOnly(<<"1">>)},
        v \in {<<"5">>, <<"7">>}}

\* other well-formed lines: another database, a fraction, an exponent,
\* another family, no bdb label
OtherLines ==
    { Line(UsedMemoryName, BdbFirst(<<"2">>), <<"2", ".", "5">>),
      Line(UsedMemoryName, BdbFirst(<<"2">>), <<"1", "e", "1">>),
      Line(MemoryLimitName, BdbFirst(<<"1">>), <<"1", "0">>),
      Line(UsedMemoryName, NoBdb, <<"5">>) }

\* other_bdb_used_memory{bdb="1",node="1"} 5
ForeignLines ==
    { Line(<<"other">> \o UsedMemoryName, BdbFirst(<<"1">>), <<"5">>) }

\* lines of the requested family whose value is no numeric literal
MalformedLines ==
    {Line(UsedMemoryName, BdbFirst(<<"1">>), v) :
        v \in {<<"1", ".", "2", ".", "3">>, <<"-", "-">>, <<"e">>, <<"x">>}}

ParseLines == PositionLines \cup OtherLines \cup ForeignLines \cup MalformedLines

Texts(lines, n) == UNION {[1..k -> lines] : k \in 0..n}

----------------------------------------------------------------------------
(* parse_metrics on its own: the inputs are drawn in ParseInit *)

MainIdle ==
    /\ http = <<>>
    /\ license_data = None
    /\ license_info = None
    /\ bdbs_mapping = None
    /\ metrics_response = None
    /\ used_memory = None
    /\ memory_limit = None
    /\ total_keys_data = None
    /\ database_list = <<>>
    /\ idx = 0
    /\ percent_memory_used = None
    /\ stdout = <<>>
    /\ error_log = <<>>

ParseInit ==
    /\ pc = "findall"
    /\ MainIdle
    /\ data \in Texts(ParseLines, MaxLines)
    /\ metric_name \in ParseNames
    /\ matches = None
    /\ table = None

\* matches = pattern.findall(data)
FindAllStep ==
    /\ pc = "findall"
    /\ matches' = [tag |-> "list", items |-> FindAll(data, metric_name)]
    /\ pc' = "comprehension"
    /\ UNCHANGED <<http, license_data, license_info, bdbs_mapping,
                   metrics_response,
                   used_memory, memory_limit, total_keys_data, database_list,
                   idx, percent_memory_used, stdout, error_log, data,
                   metric_name, table>>

\* return {db: float(value) for db, value in matches}
DictCompStep ==
    /\ pc = "comprehension"
    /\ table' = DictComp(matches.items, <<>>)
    /\ pc' = IF IsExc(table') THEN "raised" ELSE "returned"
    /\ UNCHANGED <<http, license_data, license_info, bdbs_mapping,
                   metrics_response,
                   used_memory, memory_limit, total_keys_data, database_list,
                   idx, percent_memory_used, stdout, error_log, data,
                   metric_name, matches>>

ParseNext == FindAllStep \/ DictCompStep

ParseSpec == ParseInit /\ [][ParseNext]_vars

ParseFinished == pc \in {"returned", "raised"}

----------------------------------------------------------------------------
(* Responses of the three endpoints *)

Str(s) == [tag |-> "str", s |-> s]

Bool(b) == [tag |-> "bool", b |-> b]

KV(k, v) == [key |-> k, val |-> v]

Ok(body) == [ok |-> TRUE, body |-> body, error |-> "none"]

Failed(error) == [ok |-> FALSE, body |-> <<>>, error |-> error]

\* requests.get raising, raise_for_status() on a non-2xx status
TextFailures == {Failed("ConnectionError"), Failed("HTTPError")}

\* the same, and response.json() on a body that is no JSON
JsonFailures == TextFailures \cup {Failed("JSONDecodeError")}

\* JSON objects a license endpoint may return
LicensePayloads ==
    { <<>>,
      <<KV("shards_limit", Num(0)), KV("ram_shards_in_use", Num(5))>>,
      <<KV("shards_limit", Num(10)), KV("ram_shards_in_use", Num(3)),
        KV("flash_shards_in_use", Num(2))>>,
      <<KV("cluster_name", Str("demo-cluster")),
        KV("activation_date", Str("2024-01-01")),
        KV("expiration_date", Str("2025-01-01")),
        KV("expired", Bool(FALSE)),
        KV("shards_limit", Num(100)), KV("ram_shards_in_use", Num(10)),
        KV("flash_shards_in_use", Num(0))>> }

\* JSON arrays a bdbs endpoint may return
Inventories ==
    { <<>>,
      << <<KV("uid", Num(1)), KV("name", Str("mydb")), KV("shards_count", Num(2))>> >>,
      << <<KV("uid", Num(1)), KV("name", Str("mydb")), KV("shards_count", Num(2))>>,
         <<KV("uid", Num(2))>> >> }

\* lines a metrics endpoint may return
PollLines ==
    { Line(UsedMemoryName, BdbFirst(<<"1">>), <<"5">>),
      Line(UsedMemoryName, BdbFirst(<<"2">>), <<"7">>),
      Line(UsedMemoryName, BdbFirst(<<"1">>), <<"1", ".", "2", ".", "3">>),
      Line(MemoryLimitName, BdbFirst(<<"1">>), <<"1", "0">>),
      Line(MemoryLimitName, BdbFirst(<<"1">>), <<"0">>),
      Line(MemoryLimitName, BdbFirst(<<"1">>), <<"-", "5">>),
      Line(MemoryLimitName, BdbFirst(<<"2">>), <<"2", ".", "5">>),
      Line(TotalKeysName, BdbFirst(<<"1">>), <<"7">>),
      Line(TotalKeysName, BdbFirst(<<"2">>), <<"1", "e", "1">>) }

----------------------------------------------------------------------------
(* get_json_response, fetch_license_data, fetch_bdbs_data, fetch_metrics_data *)

\* response.raise_for_status(); return response.json()
GetJsonResponse(resp) ==
    IF resp.ok THEN [tag |-> "json", value |-> resp.body] ELSE Exc(resp.error)

\* response.raise_for_status(); return response.text
GetText(resp) ==
    IF resp.ok THEN [tag |-> "str", lines |-> resp.body] ELSE Exc(resp.error)

\* f"{x:.2f}": a str has no format code 'f'
FormatFixed2(x) == IF x.tag = "num" THEN Str("fixed") ELSE Exc("ValueError")

\* (total_shards_in_use / shards_limit) * 100 if shards_limit > 0 else "N/A"
PercentShardsUsed(total_shards_in_use, shards_limit) ==
    IF RatGt0(shards_limit)
    THEN RatMul(TrueDiv(total_shards_in_use, shards_limit), Num(100))
    ELSE NA

\* the body of fetch_license_data after the fetch: field extraction, the
\* percentage, the logging calls, the returned dict
LicenseSummary(license) ==
    LET cluster_name        == DictGet(license, "cluster_name", NA)
        activation_date     == DictGet(license, "activation_date", NA)
        expiration_date     == DictGet(license, "expiration_date", NA)
        expired             == DictGet(license, "expired", NA)
        shards_limit        == DictGet(license, "shards_limit", Num(0))
        ram_shards_in_use   == DictGet(license, "ram_shards_in_use", Num(0))
        flash_shards_in_use == DictGet(license, "flash_shards_in_use", Num(0))
        total_shards_in_use == RatAdd(ram_shards_in_use, flash_shards_in_use)
        percent_shards_used == PercentShardsUsed(total_shards_in_use, shards_limit)
        logged              == FormatFixed2(percent_shards_used)
    IN  IF IsExc(logged) THEN logged
        ELSE [tag |-> "dict",
              items |-> << KV("cluster_name", cluster_name),
                           KV("activation_date", activation_date),
                           KV("expiration_date", expiration_date),
                           KV("expired", expired),
                           KV("shards_limit", shards_limit),
                           KV("ram_shards_in_use", ram_shards_in_use),
                           KV("flash_shards_in_use", flash_shards_in_use),
                           KV("percentage_shards_used", percent_shards_used) >>]

\* {str(bdb["uid"]): bdb for bdb in bdbs_data}
RECURSIVE BdbsMapping(_, _)
BdbsMapping(bdbs_data, acc) ==
    IF bdbs_data = <<>> THEN [tag |-> "dict", items |-> acc]
    ELSE LET bdb == Head(bdbs_data)
         IN  IF ~DictHas(bdb, "uid") THEN Exc("KeyError")
             ELSE BdbsMapping(Tail(bdbs_data),
                              DictSet(acc, IntToStr(DictGet(bdb, "uid", None).num), bdb))

----------------------------------------------------------------------------
(* main *)

\* 1024 * 1024
BytesPerMb == Num(1024 * 1024)

\* a handler around each fetch that logs and lets main go on
ExceptAndContinue(e) ==
    /\ error_log' = Append(error_log, e)
    /\ stdout' = stdout
    /\ pc' = IF pc = "fetch_license" THEN "fetch_bdbs"
             ELSE IF pc = "fetch_bdbs" THEN "fetch_metrics"
             ELSE "done"

\* except Exception as e: logging.error(..., exc_info=True); main returns
Except(e) ==
    /\ error_log' = Append(error_log, e)
    /\ stdout' = stdout
    /\ pc' = "done"

\* license_info = fetch_license_data()
FetchLicenseData ==
    /\ pc = "fetch_license"
    /\ \E resp \in {Ok(p) : p \in LicensePayloads} \cup JsonFailures :
          LET got == GetJsonResponse(resp)
              r   == IF IsExc(got) THEN got ELSE LicenseSummary(got.value)
          IN  /\ http' = Append(http, [url |-> "license", ok |-> resp.ok])
              /\ license_data' = IF resp.ok THEN [tag |-> "dict", items |-> resp.body]
                                 ELSE license_data
              /\ IF IsExc(r)
                 THEN Except(r) /\ UNCHANGED license_info
                 ELSE /\ license_info' = r
                      /\ pc' = "fetch_bdbs"
                      /\ UNCHANGED <<stdout, error_log>>
    /\ UNCHANGED <<bdbs_mapping, metrics_response, used_memory, memory_limit,
                   total_keys_data, database_list, idx, percent_memory_used,
                   data, metric_name, matches, table>>

\* bdbs_mapping = fetch_bdbs_data()
FetchBdbsData ==
    /\ pc = "fetch_bdbs"
    /\ \E resp \in {Ok(p) : p \in Inventories} \cup JsonFailures :
          LET got == GetJsonResponse(resp)
              r   == IF IsExc(got) THEN got ELSE BdbsMapping(got.value, <<>>)
          IN  /\ http' = Append(http, [url |-> "bdbs", ok |-> resp.ok])
              /\ IF IsExc(r)
                 THEN Except(r) /\ UNCHANGED bdbs_mapping
                 ELSE /\ bdbs_mapping' = r
                      /\ pc' = "fetch_metrics"
                      /\ UNCHANGED <<stdout, error_log>>
    /\ UNCHANGED <<license_data, license_info, metrics_response, used_memory,
                   memory_limit, total_keys_data, database_list, idx,
                   percent_memory_used, data, metric_name, matches, table>>

\* metrics_response = fetch_metrics_data()
FetchMetricsData ==
    /\ pc = "fetch_metrics"
    /\ \E resp \in {Ok(t) : t \in Texts(PollLines, MaxPollLines)} \cup TextFailures :
          LET r == GetText(resp)
          IN  /\ http' = Append(http, [url |-> "metrics", ok |-> resp.ok])
              /\ IF IsExc(r)
                 THEN Except(r) /\ UNCHANGED metrics_response
                 ELSE /\ metrics_response' = r
                      /\ pc' = "parse_used_memory"
                      /\ UNCHANGED <<stdout, error_log>>
    /\ UNCHANGED <<license_data, license_info, bdbs_mapping, used_memory,
                   memory_limit, total_keys_data, database_list, idx,
                   percent_memory_used, data, metric_name, matches, table>>

\* used_memory = parse_metrics(metrics_response, 'bdb_used_memory')
ParseUsedMemory ==
    /\ pc = "parse_used_memory"
    /\ LET r == ParseMetrics(metrics_response.lines, UsedMemoryName)
       IN  IF IsExc(r)
           THEN Except(r) /\ UNCHANGED used_memory
           ELSE /\ used_memory' = r
                /\ pc' = "parse_memory_limit"
                /\ UNCHANGED <<stdout, error_log>>
    /\ UNCHANGED <<http, license_data, license_info, bdbs_mapping,
                   metrics_response, memory_limit, total_keys_data,
                   database_list, idx, percent_memory_used, data, metric_name,
                   matches, table>>

\* memory_limit = parse_metrics(metrics_response, 'bdb_memory_limit')
ParseMemoryLimit ==
    /\ pc = "parse_memory_limit"
    /\ LET r == ParseMetrics(metrics_response.lines, MemoryLimitName)
       IN  IF IsExc(r)
           THEN Except(r) /\ UNCHANGED memory_limit
           ELSE /\ memory_limit' = r
                /\ pc' = "parse_total_keys"
                /\ UNCHANGED <<stdout, error_log>>
    /\ UNCHANGED <<http, license_data, license_info, bdbs_mapping,
                   metrics_response, used_memory, total_keys_data,
                   database_list, idx, percent_memory_used, data, metric_name,
                   matches, table>>

\* total_keys_data = parse_metrics(metrics_response, 'redis_db_keys');
\* database_list = []
ParseTotalKeys ==
    /\ pc = "parse_total_keys"
    /\ LET r == ParseMetrics(metrics_response.lines, TotalKeysName)
       IN  IF IsExc(r)
           THEN Except(r) /\ UNCHANGED total_keys_data
           ELSE /\ total_keys_data' = r
                /\ pc' = "loop"
                /\ UNCHANGED <<stdout, error_log>>
    /\ UNCHANGED <<http, license_data, license_info, bdbs_mapping,
                   metrics_response, used_memory, memory_limit, database_list,
                   idx, percent_memory_used, data, metric_name, matches, table>>

\* a loop driven by the memory_limit table
LoopItemsMemoryLimit(used, limit, keys, bdbs) == limit.items

\* for db_id, metrics in used_memory.items(): the dict that drives the loop
LoopItems(used, limit, keys, bdbs) == used.items

\* the percentage without its guard
PercentMemoryUsedUnguarded(memory_used_mb, memory_total_mb) ==
    LET q == TrueDiv(memory_used_mb, memory_total_mb)
    IN  IF IsExc(q) THEN q ELSE RatMul(q, Num(100))

\* (memory_used_mb / memory_total_mb) * 100 if memory_total_mb > 0 else 0
PercentMemoryUsed(memory_used_mb, memory_total_mb) ==
    IF RatGt0(memory_total_mb)
    THEN LET q == TrueDiv(memory_used_mb, memory_total_mb)
         IN  IF IsExc(q) THEN q ELSE RatMul(q, Num(100))
    ELSE Num(0)

\* memory_limit.get(db_id, 1) / (1024 * 1024)
MemoryTotalMb(limit, db_id) ==
    TrueDiv(DictGet(limit.items, db_id, Num(1)), BytesPerMb)

\* one iteration of the loop body up to the percentage
LoopLocals(db_id) ==
    LET bdb            == DictGet(bdbs_mapping.items, db_id, <<>>)
        memory_used_mb == TrueDiv(DictGet(used_memory.items, db_id, Num(0)), BytesPerMb)
        memory_total_mb == MemoryTotalMb(memory_limit, db_id)
    IN  [bdb_name        |-> DictGet(bdb, "name", NA),
         shards_count    |-> DictGet(bdb, "shards_count", NA),
         memory_used_mb  |-> memory_used_mb,
         memory_total_mb |-> memory_total_mb,
         total_keys      |-> Num(Trunc(DictGet(total_keys_data.items, db_id, Num(0)))),
         percent         |-> PercentMemoryUsed(memory_used_mb, memory_total_mb)]

\* the dict appended to database_list
Entry(db_id, loc) ==
    [database_id             |-> db_id,
     bdb_name                |-> loc.bdb_name,
     shards_count            |-> loc.shards_count,
     memory_used_mb          |-> loc.memory_used_mb,
     total_memory_mb         |-> loc.memory_total_mb,
     memory_usage_percentage |-> Round2(loc.percent),
     total_keys              |-> loc.total_keys]

\* a print placed in the loop body
LoopDoneAnyIteration(items) == idx <= Len(items)

\* the loop has consumed every item: the statements after it run
LoopDone(items) == idx = Len(items)

\* one iteration of the for loop
LoopIteration ==
    /\ pc = "loop"
    /\ LET items == LoopItems(used_memory, memory_limit, total_keys_data, bdbs_mapping)
       IN  /\ idx < Len(items)
           /\ LET db_id == items[idx + 1].key
                  loc   == LoopLocals(db_id)
              IN  IF IsExc(loc.percent)
                  THEN Except(loc.percent)
                       /\ UNCHANGED <<database_list, idx, percent_memory_used>>
                  ELSE /\ percent_memory_used' = loc.percent
                       /\ database_list' = Append(database_list, Entry(db_id, loc))
                       /\ idx' = idx + 1
                       /\ UNCHANGED <<pc, stdout, error_log>>
    /\ UNCHANGED <<http, license_data, license_info, bdbs_mapping,
                   metrics_response, used_memory, memory_limit, total_keys_data,
                   data, metric_name, matches, table>>

\* output_json = {**license_info, "databases": database_list};
\* print(json.dumps(output_json, indent=4)): the document is written whole
Emit ==
    /\ pc = "loop"
    /\ LoopDone(LoopItems(used_memory, memory_limit, total_keys_data, bdbs_mapping))
    /\ stdout' = Append(stdout,
                        DictSet(license_info.items, "databases", database_list))
    /\ pc' = "done"
    /\ UNCHANGED <<http, license_data, license_info, bdbs_mapping,
                   metrics_response, used_memory, memory_limit, total_keys_data,
                   database_list, idx, percent_memory_used, error_log, data,
                   metric_name, matches, table>>

Init ==
    /\ pc = "fetch_license"
    /\ MainIdle
    /\ data = None
    /\ metric_name = None
    /\ matches = None
    /\ table = None

Next ==
    \/ FetchLicenseData
    \/ FetchBdbsData
    \/ FetchMetricsData
    \/ ParseUsedMemory
    \/ ParseMemoryLimit
    \/ ParseTotalKeys
    \/ LoopIteration
    \/ Emit

Spec == Init /\ [][Next]_vars

----------------------------------------------------------------------------
(* Properties of parse_metrics, checked under ParseSpec *)

HasBdbLabel(line, id) ==
    \E l \in 1..Len(line.labels) :
        line.labels[l].key = "bdb" /\ line.labels[l].val = id

\* the value of the bdb label of a line that has one
BdbOf(line) ==
    line.labels[CHOOSE l \in 1..Len(line.labels) : line.labels[l].key = "bdb"].val

\* a line `name{...bdb="X"...} V` of the exposition format: the family name is
\* `name`, the brace list holds a bdb label with a digit value at any
\* position, V is a numeric literal
WellFormed(name, line) ==
    /\ line.name = name
    /\ \E l \in 1..Len(line.labels) :
          /\ line.labels[l].key = "bdb"
          /\ line.labels[l].val # <<>>
          /\ AllDigits(line.labels[l].val)
    /\ ValuePrefix(line.value) = line.value
    /\ ~IsExc(Float(line.value))

\* C5: in a text made of well-formed lines of the requested family, parse maps
\* the bdb of every line to that line's value (the last line of a bdb
\* counting), wherever the bdb label stands in the brace list.
C5_AnyLabelPosition ==
    (/\ ParseFinished
     /\ \A i \in 1..Len(data) : WellFormed(metric_name, data[i]))
    => /\ table.tag = "dict"
       /\ \A i \in 1..Len(data) :
             (\A j \in (i + 1)..Len(data) : BdbOf(data[j]) # BdbOf(data[i]))
             => DictGet(table.items, BdbOf(data[i]), None) = Float(data[i].value)

\* C6: every key of the table parse returns comes from a line whose family
\* name is exactly the requested name; a line of a family whose name only ends
\* with it contributes nothing.
C6_ExactFamilyName ==
    (ParseFinished /\ table.tag = "dict")
    => \A k \in DictKeys(table.items) :
          \E i \in 1..Len(data) :
              data[i].name = metric_name /\ HasBdbLabel(data[i], k)

\* C7: parse never raises: it returns a table, a line whose value is no
\* numeric literal is left out, and the bdb of every line the pattern matches
\* with a numeric value is a key of the table.
C7_MalformedValueOmitted ==
    ParseFinished
    => /\ table.tag = "dict"
       /\ \A i \in 1..Len(data) :
             (/\ LineMatches(metric_name, data[i])
              /\ ~IsExc(Float(ValuePrefix(data[i].value))))
             => DictHas(table.items, Groups(data[i]).db)

----------------------------------------------------------------------------
(* Properties of main, checked under Spec *)

FetchFailed == \E i \in 1..Len(http) : ~http[i].ok

FetchOrder == <<"license", "bdbs", "metrics">>

Ids(entries) == {entries[i].database_id : i \in 1..Len(entries)}

\* C1: the database_id values of the databases list of every document written
\* are exactly the keys of used_memory, one entry per key.
C1_ReportIdsAreUsedMemoryKeys ==
    \A n \in 1..Len(stdout) :
        LET dbs == DictGet(stdout[n], "databases", <<>>)
        IN  /\ Ids(dbs) = DictKeys(used_memory.items)
            /\ Len(dbs) = Cardinality(DictKeys(used_memory.items))

\* a report was written while database 2 is in the inventory and in
\* memory_limit but not in used_memory, which holds database 1
C1_Witness ==
    /\ stdout # <<>>
    /\ <<"1">> \in DictKeys(used_memory.items)
    /\ <<"2">> \notin DictKeys(used_memory.items)
    /\ <<"2">> \in DictKeys(memory_limit.items)
    /\ <<"2">> \in DictKeys(bdbs_mapping.items)

\* C2: after a failed fetch nothing is on standard output, the error is logged
\* and main has ended; at most one document is ever written, and only after
\* the three fetches succeeded and the loop consumed every item of used_memory.
C2_OutputIsAtomic ==
    /\ FetchFailed => (stdout = <<>> /\ Len(error_log) = 1 /\ pc = "done")
    /\ Len(stdout) <= 1
    /\ stdout # <<>> =>
          /\ pc = "done"
          /\ Len(http) = 3
          /\ ~FetchFailed
          /\ idx = Len(used_memory.items)
          /\ Len(DictGet(stdout[1], "databases", <<>>)) = Len(used_memory.items)
          /\ \A k \in DictKeys(license_info.items) : DictHas(stdout[1], k)

\* the metrics fetch failed after the license and the inventory were fetched
C2_Witness ==
    /\ pc = "done"
    /\ Len(http) = 3
    /\ ~http[3].ok

\* C3: a poll ends without a report only when a fetch failed.
C3_OnlyFetchErrorIsFatal ==
    pc = "done" => (stdout # <<>> \/ FetchFailed)

\* C4: once the license object is fetched, fetch_license_data returns a
\* summary whose percentage_shards_used is (ram + flash) / shards_limit * 100
\* when shards_limit > 0 and "N/A" otherwise.
C4_SummaryNeverRaises ==
    license_data # None
    => /\ license_info.tag = "dict"
       /\ LET limit == DictGet(license_data.items, "shards_limit", Num(0))
              ram   == DictGet(license_data.items, "ram_shards_in_use", Num(0))
              flash == DictGet(license_data.items, "flash_shards_in_use", Num(0))
              pct   == DictGet(license_info.items, "percentage_shards_used", None)
          IN  IF limit.num > 0
              THEN /\ pct.tag = "num"
                   /\ pct.num * limit.num = (ram.num + flash.num) * 100 * pct.den
              ELSE pct = NA

\* C9: no iteration raises ZeroDivisionError; an entry whose database has no
\* memory_limit sample has a total of 1 byte; an entry whose total is not
\* positive has percentage 0; otherwise the percentage computed is
\* used / total * 100, and the entry holds it rounded to two decimals.
C9_NoDivisionError ==
    /\ \A i \in 1..Len(error_log) : error_log[i].type # "ZeroDivisionError"
    /\ \A i \in 1..Len(database_list) :
          LET e == database_list[i]
              k == e.database_id
          IN  /\ RatMul(e.total_memory_mb, BytesPerMb)
                    = DictGet(memory_limit.items, k, Num(1))
              /\ e.total_memory_mb.num <= 0 => e.memory_usage_percentage = Num(0)
    /\ (idx >= 1 /\ idx <= Len(database_list)) =>
          LET e == database_list[idx]
              d == RatAdd(e.memory_usage_percentage,
                          Rat(-percent_memory_used.num, percent_memory_used.den))
          IN  /\ IF e.total_memory_mb.num > 0
                 THEN RatMul(percent_memory_used, e.total_memory_mb)
                         = RatMul(Num(100), e.memory_used_mb)
                 ELSE percent_memory_used = Num(0)
              /\ Abs(d.num) * 200 <= d.den

\* the list holds an entry of a database without memory_limit sample and an
\* entry of a database whose memory_limit sample is zero or negative
C9_Witness ==
    /\ \E i \in 1..Len(database_list) :
          ~DictHas(memory_limit.items, database_list[i].database_id)
    /\ \E i \in 1..Len(database_list) :
          /\ DictHas(memory_limit.items, database_list[i].database_id)
          /\ DictGet(memory_limit.items, database_list[i].database_id, None).num <= 0

\* C10: the requests issued are a prefix of license, bdbs, metrics, none
\* twice, and every request but the latest succeeded.
C10_FetchOrder ==
    /\ Len(http) <= 3
    /\ \A i \in 1..Len(http) : http[i].url = FetchOrder[i]
    /\ \A i \in 1..(Len(http) - 1) : http[i].ok

\* the inventory fetch failed and main ended without contacting the metrics
\* endpoint
C10_Witness ==
    /\ pc = "done"
    /\ Len(http) = 2
    /\ ~http[2].ok

====
